---------------------------- MODULE Spec2Model ----------------------------
(***************************************************************************)
(* Healthcare ETL analytics (src/healthcare_etl_analytics.py).             *)
(*                                                                         *)
(* The script is a straight-line PySpark job: load two CSV files,          *)
(* normalize their column names, stamp a patient_id on every patient row,  *)
(* derive age_lower from the readmissions' bucketed age label, range-join  *)
(* the two frames, project the joined frame, print a summary and seven     *)
(* grouped reports, overwrite a Parquet dataset, stop the session.         *)
(*                                                                         *)
(* Conventions of the model                                                *)
(*  - a string that the code inspects character by character (a column     *)
(*    name, an age label) is a sequence of one-character strings;          *)
(*  - a data frame is a record [cols, rows]: the column names in order and *)
(*    the rows as tuples aligned with cols;                                *)
(*  - SQL NULL is the value NULL; an integer column holds 32-bit values;   *)
(*  - the Spark session runs with its Spark 3.x defaults (ANSI mode off):  *)
(*    an invalid cast yields NULL and integer addition wraps;              *)
(*  - a 64-bit patient_id is the pair [hi, lo] of its upper 31 bits (the   *)
(*    partition index) and its lower 33 bits (the row's position in the    *)
(*    partition), because the value itself exceeds the checker's integers; *)
(*  - an average is kept in hundredths (the value of round(avg(x), 2)      *)
(*    times 100); amounts are whole numbers;                               *)
(*  - columns of the two files that are only carried through the pipeline  *)
(*    (blood_type, medication, n_procedures, ...) behave like name and are *)
(*    left out.                                                            *)
(***************************************************************************)
EXTENDS Integers, Sequences, FiniteSets, TLC

VARIABLES
    pc,               \* the statement the script executes next
    patients_csv,     \* the patient file, as read (input; never changed)
    readmissions_csv, \* the readmission file, as read (input; never changed)
    partitioning,     \* partition index of every patient row (input)
    patients_df,      \* src: patients_df
    readmissions_df,  \* src: readmissions_df
    joined_df,        \* src: joined_df
    final_df,         \* src: final_df
    console,          \* what has been printed, in order: <<title, body>>
    output,           \* the rows stored at output/final_healthcare_etl.parquet
    writes,           \* number of times the sink write was started
    failed_at,        \* the statement that raised, or "none"
    run,              \* 1 for the first run of the script, 2 for a re-run
    previous          \* what the first run produced (kept for a re-run)

vars == <<pc, patients_csv, readmissions_csv, partitioning, patients_df,
          readmissions_df, joined_df, final_df, console, output, writes,
          failed_at, run, previous>>

-----------------------------------------------------------------------------
(* Bounds of the model *)

MaxPatients == 2      \* rows of the patient file
MaxReadmissions == 2  \* rows of the readmission file
MaxPartitions == 2    \* input partitions of the patient file
MaxLabelLen == 5      \* length of an enumerated age label
MaxNameLen == 2       \* length of an enumerated raw column name
MaxColumns == 2       \* number of enumerated raw column names

(* Program constants *)

NULL == -1                \* SQL NULL (no column of the program holds -1)
Int32Max == 2147483647    \* largest IntegerType value
IntervalWidth == 9        \* col("r.age_lower") + 9
TopN == 5                 \* show(5, ...)
Scale == 100              \* round(..., 2): two decimal places

-----------------------------------------------------------------------------
(* Generic helpers *)

Range(s) == {s[i] : i \in 1..Len(s)}

BoundedSeq(S, n) == UNION {[1..k -> S] : k \in 0..n}

Min(a, b) == IF a <= b THEN a ELSE b

RECURSIVE SumSeq(_)
SumSeq(s) == IF s = <<>> THEN 0 ELSE Head(s) + SumSeq(Tail(s))

RECURSIVE Flatten(_)
Flatten(ss) == IF ss = <<>> THEN <<>> ELSE Head(ss) \o Flatten(Tail(ss))

-----------------------------------------------------------------------------
(* Column names and labels, character by character *)

raw_Name == <<"N", "a", "m", "e">>
raw_Age == <<"A", "g", "e">>
raw_Gender == <<"G", "e", "n", "d", "e", "r">>
raw_Doctor == <<"D", "o", "c", "t", "o", "r">>
raw_Hospital == <<"H", "o", "s", "p", "i", "t", "a", "l">>
raw_BillingAmount == <<"B", "i", "l", "l", "i", "n", "g", " ", "A", "m", "o", "u", "n", "t">>
raw_AdmissionType == <<"A", "d", "m", "i", "s", "s", "i", "o", "n", " ", "T", "y", "p", "e">>
raw_BillingAmountTab == <<"B", "i", "l", "l", "i", "n", "g", "\t", "A", "m", "o", "u", "n", "t">>
raw_age == <<"a", "g", "e">>
raw_time_in_hospital == <<"t", "i", "m", "e", "_", "i", "n", "_", "h", "o", "s", "p", "i", "t", "a", "l">>
raw_readmitted == <<"r", "e", "a", "d", "m", "i", "t", "t", "e", "d">>
raw_age_group == <<"a", "g", "e", "_", "g", "r", "o", "u", "p">>

c_patient_id == <<"p", "a", "t", "i", "e", "n", "t", "_", "i", "d">>
c_name == <<"n", "a", "m", "e">>
c_age == <<"a", "g", "e">>
c_gender == <<"g", "e", "n", "d", "e", "r">>
c_doctor == <<"d", "o", "c", "t", "o", "r">>
c_hospital == <<"h", "o", "s", "p", "i", "t", "a", "l">>
c_billing_amount == <<"b", "i", "l", "l", "i", "n", "g", "_", "a", "m", "o", "u", "n", "t">>
c_admission_type == <<"a", "d", "m", "i", "s", "s", "i", "o", "n", "_", "t", "y", "p", "e">>
c_time_in_hospital == <<"t", "i", "m", "e", "_", "i", "n", "_", "h", "o", "s", "p", "i", "t", "a", "l">>
c_readmitted == <<"r", "e", "a", "d", "m", "i", "t", "t", "e", "d">>
c_age_lower == <<"a", "g", "e", "_", "l", "o", "w", "e", "r">>

L_20_30 == <<"[", "2", "0", "-", "3", "0", ")">>
L_21_31 == <<"[", "2", "1", "-", "3", "1", ")">>
L_22_32 == <<"[", "2", "2", "-", "3", "2", ")">>
L_23_33 == <<"[", "2", "3", "-", "3", "3", ")">>
L_invalid == <<"i", "n", "v", "a", "l", "i", "d">>
L_90plus == <<"[", "9", "0", "+", ")">>
L_maxint == <<"[", "2", "1", "4", "7", "4", "8", "3", "6", "4", "7", "-", "2", "1", "4", "7", "4", "8", "3", "6", "5", "7", ")">>
L_overflow == <<"[", "2", "1", "4", "7", "4", "8", "3", "6", "4", "8", "-", "2", "1", "4", "7", "4", "8", "3", "6", "5", "8", ")">>
L_leading_zero == <<"[", "0", "0", "7", "-", "1", "7", ")">>
L_0_10 == <<"[", "0", "-", "1", "0", ")">>
L_embedded == <<"a", "b", "[", "2", "0", "-", "3", "0", ")", "c", "d">>

-----------------------------------------------------------------------------
(* 3. Normalize column names: c.lower().replace(" ", "_") *)

UpperCase == <<"A", "B", "D", "G", "H", "N", "T">>
LowerCase == <<"a", "b", "d", "g", "h", "n", "t">>

(* str.lower() on one character: a cased letter maps to its lower-case     *)
(* form, every other character (digit, space, tab, underscore) to itself.  *)
lower(ch) ==
    IF \E i \in 1..Len(UpperCase) : UpperCase[i] = ch
    THEN LowerCase[CHOOSE i \in 1..Len(UpperCase) : UpperCase[i] = ch]
    ELSE ch

(* str.replace(" ", "_") on one character, faulty variant: the tab is     *)
(* replaced like the space.                                                *)
replaceAnyWhitespace(ch) == IF ch \in {" ", "\t"} THEN "_" ELSE ch

(* str.replace(" ", "_") on one character: only U+0020 is replaced. *)
replace(ch) == IF ch = " " THEN "_" ELSE ch

(* c.lower().replace(" ", "_") *)
NormalizeName(c) == [i \in 1..Len(c) |-> replace(lower(c[i]))]

(* [c.lower().replace(" ", "_") for c in df.columns] *)
NormalizeColumns(columns) == [i \in 1..Len(columns) |-> NormalizeName(columns[i])]

(* df.toDF(names): the same rows under new column names; toDF accepts     *)
(* duplicate names.                                                        *)
toDF(df, names) == [cols |-> names, rows |-> df.rows]

-----------------------------------------------------------------------------
(* Data frame helpers *)

EmptyDF == [cols |-> <<>>, rows |-> <<>>]

(* A column reference resolves when exactly one column has the name: an    *)
(* absent or an ambiguous name raises AnalysisException.                   *)
Resolves(cols, name) == Cardinality({i \in 1..Len(cols) : cols[i] = name}) = 1

ColIndex(cols, name) == CHOOSE i \in 1..Len(cols) : cols[i] = name

(* df.withColumn(name, values): replaces the columns of that name, or      *)
(* appends a new last column.                                              *)
withColumn(df, name, values) ==
    IF \E i \in 1..Len(df.cols) : df.cols[i] = name
    THEN [cols |-> df.cols,
          rows |-> [k \in 1..Len(df.rows) |->
                       [i \in 1..Len(df.cols) |->
                           IF df.cols[i] = name THEN values[k] ELSE df.rows[k][i]]]]
    ELSE [cols |-> Append(df.cols, name),
          rows |-> [k \in 1..Len(df.rows) |-> Append(df.rows[k], values[k])]]

-----------------------------------------------------------------------------
(* 4. Create patient_id: monotonically_increasing_id() *)

(* Position of row k inside its partition. *)
RowInPartition(parts, k) == Cardinality({j \in 1..(k - 1) : parts[j] = parts[k]})

(* A faulty variant: every partition numbers its rows from zero, without   *)
(* a block of ids of its own.                                              *)
monotonically_increasing_id_local(parts, k) ==
    [hi |-> 0, lo |-> RowInPartition(parts, k)]

(* monotonically_increasing_id(): the partition index in the upper 31     *)
(* bits, the record number within the partition in the lower 33 bits.     *)
monotonically_increasing_id(parts, k) ==
    [hi |-> parts[k], lo |-> RowInPartition(parts, k)]

(* Order of two 64-bit ids. *)
IdLeq(a, b) == a.hi < b.hi \/ (a.hi = b.hi /\ a.lo <= b.lo)

(* patients_df.withColumn("patient_id", monotonically_increasing_id()) *)
WithPatientId(df, parts) ==
    withColumn(df, c_patient_id,
               [k \in 1..Len(df.rows) |-> monotonically_increasing_id(parts, k)])

-----------------------------------------------------------------------------
(* 5. Transform readmissions age to numeric *)

NullString == <<"<null>">>   \* a NULL in a string column

DigitChars == <<"0", "1", "2", "3", "4", "5", "6", "7", "8", "9">>

IsDigit(ch) == \E d \in 1..10 : DigitChars[d] = ch

DigitValue(ch) == (CHOOSE d \in 1..10 : DigitChars[d] = ch) - 1

(* Last index of the longest run of digits of s that starts at i; i - 1    *)
(* when s has no digit at i. This is what the greedy \d+ consumes: the     *)
(* pattern continues with a non-digit, so no shorter run can match.        *)
RECURSIVE DigitsEnd(_, _)
DigitsEnd(s, i) ==
    IF i <= Len(s) /\ IsDigit(s[i]) THEN DigitsEnd(s, i + 1) ELSE i - 1

(* The pattern \[(\d+)-\d+\) matches s starting at index i. *)
MatchesAt(s, i) ==
    /\ s[i] = "["
    /\ LET e1 == DigitsEnd(s, i + 1) IN
         /\ e1 >= i + 1
         /\ e1 + 1 <= Len(s)
         /\ s[e1 + 1] = "-"
         /\ LET e2 == DigitsEnd(s, e1 + 2) IN
              /\ e2 >= e1 + 2
              /\ e2 + 1 <= Len(s)
              /\ s[e2 + 1] = ")"

(* Start of the leftmost match at or after i; 0 when there is none. The    *)
(* pattern is not anchored: regexp_extract searches the whole string.      *)
RECURSIVE FindFrom(_, _)
FindFrom(s, i) ==
    IF i > Len(s) THEN 0
    ELSE IF MatchesAt(s, i) THEN i
    ELSE FindFrom(s, i + 1)

(* regexp_extract(col, r"\[(\d+)-\d+\)", 1): group 1 of the leftmost       *)
(* match, the empty string when nothing matches, NULL for a NULL input.    *)
regexp_extract(s) ==
    IF s = NullString THEN NullString
    ELSE LET i == FindFrom(s, 1) IN
         IF i = 0 THEN <<>> ELSE SubSeq(s, i + 1, DigitsEnd(s, i + 1))

(* Decimal value of a digit string, NULL as soon as it leaves 32 bits. *)
RECURSIVE ToInt(_, _)
ToInt(ds, acc) ==
    IF ds = <<>> THEN acc
    ELSE LET d == DigitValue(Head(ds)) IN
         IF acc > (Int32Max - d) \div 10 THEN NULL
         ELSE ToInt(Tail(ds), acc * 10 + d)

(* A faulty variant: the empty string is cast to 0 instead of NULL. *)
castIntegerZeroDefault(str) ==
    IF str = NullString THEN NULL
    ELSE IF str = <<>> THEN 0
    ELSE IF \A i \in 1..Len(str) : IsDigit(str[i]) THEN ToInt(str, 0)
    ELSE NULL

(* .cast("integer") of a string (ANSI mode off): NULL for NULL, for the    *)
(* empty string, for a non-number and for a value outside 32 bits.         *)
castInteger(str) ==
    IF str = NullString \/ str = <<>> THEN NULL
    ELSE IF \A i \in 1..Len(str) : IsDigit(str[i]) THEN ToInt(str, 0)
    ELSE NULL

(* readmissions_df.withColumn("age_lower", regexp_extract(...).cast(...)) *)
WithAgeLower(df) ==
    LET a == ColIndex(df.cols, c_age) IN
    withColumn(df, c_age_lower,
               [k \in 1..Len(df.rows) |-> castInteger(regexp_extract(df.rows[k][a]))])

-----------------------------------------------------------------------------
(* 6.-7. Aliases and join *)

(* a + b on IntegerType (ANSI mode off), for 0 <= b: the sum wraps around  *)
(* to a + b - 2^32 when it exceeds Int32Max.                               *)
Add32(a, b) ==
    IF a > Int32Max - b
    THEN (a - Int32Max) + (b - Int32Max) - 2
    ELSE a + b

(* A faulty variant: the upper end of the bucket label is taken as inclusive. *)
betweenInclusiveUpper(age, age_lower) ==
    /\ age # NULL
    /\ age_lower # NULL
    /\ age >= age_lower
    /\ age <= Add32(age_lower, IntervalWidth + 1)

(* col("p.age").between(col("r.age_lower"), col("r.age_lower") + 9): a     *)
(* NULL operand makes the condition NULL, which the join treats as false.  *)
between(age, age_lower) ==
    /\ age # NULL
    /\ age_lower # NULL
    /\ age >= age_lower
    /\ age <= Add32(age_lower, IntervalWidth)

(* df.alias(a): every column is referred to as a.<name>. *)
alias(df, a) == [cols |-> [i \in 1..Len(df.cols) |-> <<a, df.cols[i]>>], rows |-> df.rows]

(* p.join(r, <condition>, how="inner"): one row per pair (patient row,     *)
(* readmission row) that satisfies the condition, patient-major.           *)
InnerJoin(p, r) ==
    LET ai == ColIndex(p.cols, <<"p", c_age>>)
        li == ColIndex(r.cols, <<"r", c_age_lower>>)
        matched(prow) == SelectSeq(r.rows, LAMBDA rrow : between(prow[ai], rrow[li]))
        pairs(prow) == [m \in 1..Len(matched(prow)) |-> prow \o matched(prow)[m]]
    IN [cols |-> p.cols \o r.cols,
        rows |-> Flatten([k \in 1..Len(p.rows) |-> pairs(p.rows[k])])]

JoinResolves(p, r) ==
    /\ Resolves(p.cols, c_age)
    /\ Resolves(r.cols, c_age_lower)

-----------------------------------------------------------------------------
(* 8. Select columns *)

SelectList ==
    << <<"p", c_patient_id>>, <<"p", c_name>>, <<"p", c_age>>, <<"p", c_gender>>,
       <<"p", c_doctor>>, <<"p", c_hospital>>, <<"p", c_billing_amount>>,
       <<"p", c_admission_type>>, <<"r", c_time_in_hospital>>, <<"r", c_readmitted>> >>

SelectResolves(df) == \A i \in 1..Len(SelectList) : Resolves(df.cols, SelectList[i])

(* joined_df.select(col("p.patient_id"), ..., col("r.readmitted")): the    *)
(* listed columns, in the listed order, under their unqualified names.     *)
select(df) ==
    [cols |-> [i \in 1..Len(SelectList) |-> SelectList[i][2]],
     rows |-> [k \in 1..Len(df.rows) |->
                 [i \in 1..Len(SelectList) |-> df.rows[k][ColIndex(df.cols, SelectList[i])]]]]

-----------------------------------------------------------------------------
(* 9.-10. Aggregations over final_df *)

Column(df, name) ==
    LET c == ColIndex(df.cols, name) IN [k \in 1..Len(df.rows) |-> df.rows[k][c]]

(* final_df.count() *)
count(df) == Len(df.rows)

(* final_df.select("patient_id").distinct().count() *)
countDistinct(df, name) == Cardinality(Range(Column(df, name)))

(* final_df.groupBy(name).count(): one group per value present, with the   *)
(* number of rows that hold the value.                                     *)
groupByCount(df, name) ==
    LET col == Column(df, name) IN
    [v \in Range(col) |-> Cardinality({k \in 1..Len(col) : col[k] = v})]

(* round(avg(x), 2) from the sum and the number of non-NULL values, in     *)
(* hundredths, rounding half up; NULL when there is no value.              *)
roundAvg(sum, n) ==
    IF n = 0 THEN NULL ELSE (2 * Scale * sum + n) \div (2 * n)

(* final_df.select(round(avg(name), 2)): avg skips NULL values. *)
avg(df, name) ==
    LET vals == SelectSeq(Column(df, name), LAMBDA v : v # NULL) IN
    roundAvg(SumSeq(vals), Len(vals))

(* final_df.groupBy(by).agg(round(avg(name), 2)) *)
groupByAvg(df, by, name) ==
    LET keys == Column(df, by)
        col == Column(df, name)
        vals(g) == {k \in 1..Len(col) : keys[k] = g /\ col[k] # NULL}
        RECURSIVE SumOver(_)
        SumOver(S) == IF S = {} THEN 0
                      ELSE LET k == CHOOSE x \in S : TRUE IN col[k] + SumOver(S \ {k})
    IN [g \in Range(keys) |-> roundAvg(SumOver(vals(g)), Cardinality(vals(g)))]

(* The orders in which groupBy(name).count().orderBy(col("count").desc())  *)
(* can deliver the groups: every arrangement with non-increasing counts.   *)
(* The sort has no second key, and Spark leaves the order of rows with     *)
(* equal sort keys open (it depends on shuffle and task completion order). *)
orderByCountDesc(counts) ==
    LET G == DOMAIN counts
        n == Cardinality(G)
    IN {s \in [1..n -> G] :
          /\ \A i, j \in 1..n : i # j => s[i] # s[j]
          /\ \A i \in 1..(n - 1) : counts[s[i]] >= counts[s[i + 1]]}

(* .show(5): the first five rows of an ordered result, as <<group, count>>. *)
show(counts, order) ==
    [i \in 1..Min(TopN, Len(order)) |-> <<order[i], counts[order[i]]>>]

-----------------------------------------------------------------------------
(* The script, statement by statement *)

(* The statements in program order. *)
Program ==
    << "load", "normalize_patients", "normalize_readmissions", "assign_patient_id",
       "transform_age", "join", "select", "show_sample", "count_rows",
       "count_patients", "report_gender", "report_age", "report_hospitals",
       "report_doctors", "report_readmitted", "report_time_in_hospital",
       "report_billing", "write", "stop" >>

StageIndex(stage) ==
    IF \E i \in 1..Len(Program) : Program[i] = stage
    THEN CHOOSE i \in 1..Len(Program) : Program[i] = stage
    ELSE Len(Program) + 1

(* A faulty variant: the two top-5 reports are printed in the other order. *)
SuccDoctorsFirst(stage) ==
    CASE stage = "report_age" -> "report_doctors"
      [] stage = "report_doctors" -> "report_hospitals"
      [] stage = "report_hospitals" -> "report_readmitted"
      [] OTHER -> IF StageIndex(stage) < Len(Program)
                  THEN Program[StageIndex(stage) + 1] ELSE "done"

(* The statement that follows a statement that returned normally. *)
Succ(stage) ==
    IF StageIndex(stage) < Len(Program) THEN Program[StageIndex(stage) + 1] ELSE "done"

(* A faulty variant: an exception is caught and the script goes on. *)
AfterFailureSwallowed(stage) == Succ(stage)

(* Where control goes when a statement raises: the script has no           *)
(* try/except, so the exception ends the process.                          *)
AfterFailure(stage) == "failed"

Advance(stage) == pc' = Succ(stage) /\ failed_at' = failed_at

Raise(stage) == pc' = AfterFailure(stage) /\ failed_at' = stage

inputs == <<patients_csv, readmissions_csv, partitioning, run, previous>>
sink == <<output, writes>>

T_sample == "Sample Joined Dataset"
T_rows == "Total rows in joined dataset"
T_patients == "Total unique patients"
T_gender == "Gender Distribution"
T_age == "Average Age"
T_hospitals == "Top 5 Hospitals by Patient Count"
T_doctors == "Top 5 Doctors by Patient Count"
T_readmitted == "Readmission Counts"
T_time == "Average Time in Hospital by Readmission"
T_billing == "Average Billing by Admission Type"

(* 2. Load datasets: spark.read.csv(..., header=True, inferSchema=True) *)
Load ==
    /\ pc = "load"
    /\ \/ /\ patients_df' = patients_csv
          /\ readmissions_df' = readmissions_csv
          /\ Advance("load")
       \/ /\ Raise("load")
          /\ UNCHANGED <<patients_df, readmissions_df>>
    /\ UNCHANGED <<inputs, joined_df, final_df, console, sink>>

(* 3. patients_df = patients_df.toDF(...) *)
NormalizePatients ==
    /\ pc = "normalize_patients"
    /\ patients_df' = toDF(patients_df, NormalizeColumns(patients_df.cols))
    /\ Advance("normalize_patients")
    /\ UNCHANGED <<inputs, readmissions_df, joined_df, final_df, console, sink>>

(* 3. readmissions_df = readmissions_df.toDF(...) *)
NormalizeReadmissions ==
    /\ pc = "normalize_readmissions"
    /\ readmissions_df' = toDF(readmissions_df, NormalizeColumns(readmissions_df.cols))
    /\ Advance("normalize_readmissions")
    /\ UNCHANGED <<inputs, patients_df, joined_df, final_df, console, sink>>

(* 4. patients_df = patients_df.withColumn("patient_id", ...) *)
AssignPatientId ==
    /\ pc = "assign_patient_id"
    /\ patients_df' = WithPatientId(patients_df, partitioning)
    /\ Advance("assign_patient_id")
    /\ UNCHANGED <<inputs, readmissions_df, joined_df, final_df, console, sink>>

(* 5. readmissions_df = readmissions_df.withColumn("age_lower", ...);      *)
(* col("age") must resolve.                                                *)
TransformAge ==
    /\ pc = "transform_age"
    /\ IF Resolves(readmissions_df.cols, c_age)
       THEN /\ readmissions_df' = WithAgeLower(readmissions_df)
            /\ Advance("transform_age")
       ELSE /\ Raise("transform_age")
            /\ UNCHANGED readmissions_df
    /\ UNCHANGED <<inputs, patients_df, joined_df, final_df, console, sink>>

(* 6.-7. p = patients_df.alias("p"); r = readmissions_df.alias("r");       *)
(* joined_df = p.join(r, ..., how="inner")                                 *)
Join ==
    /\ pc = "join"
    /\ IF JoinResolves(patients_df, readmissions_df)
       THEN /\ joined_df' = InnerJoin(alias(patients_df, "p"), alias(readmissions_df, "r"))
            /\ Advance("join")
       ELSE /\ Raise("join")
            /\ UNCHANGED joined_df
    /\ UNCHANGED <<inputs, patients_df, readmissions_df, final_df, console, sink>>

(* 8. final_df = joined_df.select(...) *)
Select ==
    /\ pc = "select"
    /\ IF SelectResolves(joined_df)
       THEN /\ final_df' = select(joined_df)
            /\ Advance("select")
       ELSE /\ Raise("select")
            /\ UNCHANGED final_df
    /\ UNCHANGED <<inputs, patients_df, readmissions_df, joined_df, console, sink>>

(* A statement that runs a Spark job and prints its result: it prints, or  *)
(* the job fails and the statement raises.                                 *)
Emit(stage, title, body) ==
    /\ pc = stage
    /\ \/ /\ console' = Append(console, <<title, body>>)
          /\ Advance(stage)
       \/ /\ Raise(stage)
          /\ UNCHANGED console
    /\ UNCHANGED <<inputs, patients_df, readmissions_df, joined_df, final_df, sink>>

(* 9. final_df.show(5, truncate=False) *)
ShowSample ==
    Emit("show_sample", T_sample,
          SubSeq(final_df.rows, 1, Min(TopN, Len(final_df.rows))))

(* 9. print("Total rows in joined dataset:", final_df.count()) *)
CountRows == Emit("count_rows", T_rows, count(final_df))

(* 9. print("Total unique patients:", ...distinct().count()) *)
CountPatients == Emit("count_patients", T_patients, countDistinct(final_df, c_patient_id))

(* 10. Gender Distribution *)
ReportGender == Emit("report_gender", T_gender, groupByCount(final_df, c_gender))

(* 10. Average Age *)
ReportAge == Emit("report_age", T_age, avg(final_df, c_age))

(* 10. Top 5 Hospitals by Patient Count *)
ReportHospitals ==
    /\ pc = "report_hospitals"
    /\ \E order \in orderByCountDesc(groupByCount(final_df, c_hospital)) :
         Emit("report_hospitals", T_hospitals,
              show(groupByCount(final_df, c_hospital), order))

(* 10. Top 5 Doctors by Patient Count *)
ReportDoctors ==
    /\ pc = "report_doctors"
    /\ \E order \in orderByCountDesc(groupByCount(final_df, c_doctor)) :
         Emit("report_doctors", T_doctors,
              show(groupByCount(final_df, c_doctor), order))

(* 10. Readmission Counts *)
ReportReadmitted == Emit("report_readmitted", T_readmitted, groupByCount(final_df, c_readmitted))

(* 10. Average Time in Hospital by Readmission *)
ReportTimeInHospital ==
    Emit("report_time_in_hospital", T_time,
          groupByAvg(final_df, c_readmitted, c_time_in_hospital))

(* 10. Average Billing by Admission Type *)
ReportBilling ==
    Emit("report_billing", T_billing,
          groupByAvg(final_df, c_admission_type, c_billing_amount))

(* 11. final_df.write.mode("overwrite").parquet(...): the stored rows are  *)
(* replaced by the rows of final_df; a failed write leaves the old rows    *)
(* or, once they have been deleted, nothing.                               *)
Write ==
    /\ pc = "write"
    /\ writes' = writes + 1
    /\ \/ /\ output' = final_df.rows
          /\ Advance("write")
       \/ /\ output' \in {output, <<>>}
          /\ Raise("write")
    /\ UNCHANGED <<inputs, patients_df, readmissions_df, joined_df, final_df, console>>

(* 12. spark.stop() *)
Stop ==
    /\ pc = "stop"
    /\ Advance("stop")
    /\ UNCHANGED <<inputs, patients_df, readmissions_df, joined_df, final_df, console, sink>>

(* The script is started again on the same files, with the same            *)
(* partitioning; the stored output of the first run is still there.        *)
Rerun ==
    /\ pc = "done"
    /\ run = 1
    /\ run' = 2
    /\ previous' = [rows |-> final_df.rows, console |-> console]
    /\ pc' = "load"
    /\ failed_at' = "none"
    /\ patients_df' = EmptyDF
    /\ readmissions_df' = EmptyDF
    /\ joined_df' = EmptyDF
    /\ final_df' = EmptyDF
    /\ console' = <<>>
    /\ writes' = 0
    /\ UNCHANGED <<patients_csv, readmissions_csv, partitioning, output>>

-----------------------------------------------------------------------------
(* Inputs *)

PatientHeader ==
    <<raw_Name, raw_Age, raw_Gender, raw_Doctor, raw_Hospital, raw_BillingAmount,
      raw_AdmissionType>>

(* The same header with a tab inside one name. *)
PatientHeaderTab ==
    <<raw_Name, raw_Age, raw_Gender, raw_Doctor, raw_Hospital, raw_BillingAmountTab,
      raw_AdmissionType>>

ReadmissionHeader == <<raw_age, raw_time_in_hospital, raw_readmitted>>

(* A readmission file whose bucket column has another name. *)
ReadmissionHeaderNoAge == <<raw_age_group, raw_time_in_hospital, raw_readmitted>>

Headers ==
    { <<PatientHeader, ReadmissionHeader>>,
      <<PatientHeaderTab, ReadmissionHeader>>,
      <<PatientHeader, ReadmissionHeaderNoAge>> }

(* name, age, gender, doctor, hospital, billing amount, admission type *)
PatientRows ==
    { <<"Ann", 25, "F", "D1", "H1", 100, "Emergency">>,
      <<"Bob", 30, "M", "D2", "H2", 251, "Elective">>,
      <<"Dee", Int32Max, "F", "D2", "H1", NULL, "Urgent">> }

(* age label, time in hospital, readmitted *)
ReadmissionRows ==
    { <<L_20_30, 3, "yes">>,
      <<L_21_31, 8, "no">>,
      <<L_maxint, 4, "no">> }

(* The rows stored by an earlier run of some other input. *)
OldOutput ==
    << <<[hi |-> 0, lo |-> 0], "Old", 50, "F", "D0", "H0", 1, "Elective", 1, "no">> >>

(* Partition index of each of n rows: the file is cut into consecutive     *)
(* pieces, so the index never decreases along the file.                    *)
Partitionings(n) ==
    {p \in [1..n -> 0..(MaxPartitions - 1)] : \A i \in 1..(n - 1) : p[i] <= p[i + 1]}

InitRun ==
    /\ pc = "load"
    /\ patients_df = EmptyDF
    /\ readmissions_df = EmptyDF
    /\ joined_df = EmptyDF
    /\ final_df = EmptyDF
    /\ console = <<>>
    /\ writes = 0
    /\ failed_at = "none"
    /\ run = 1
    /\ previous = [rows |-> <<>>, console |-> <<>>]

Init ==
    /\ \E h \in Headers :
         /\ \E rows \in BoundedSeq(PatientRows, MaxPatients) :
              patients_csv = [cols |-> h[1], rows |-> rows]
         /\ \E rows \in BoundedSeq(ReadmissionRows, MaxReadmissions) :
              readmissions_csv = [cols |-> h[2], rows |-> rows]
    /\ partitioning = [k \in 1..Len(patients_csv.rows) |-> 0]
    /\ output = OldOutput
    /\ InitRun

Normalizing ==
    \/ Load
    \/ NormalizePatients
    \/ NormalizeReadmissions

Prepare ==
    \/ Normalizing
    \/ AssignPatientId
    \/ TransformAge
    \/ Join
    \/ Select

Reporting ==
    \/ ShowSample
    \/ CountRows
    \/ CountPatients
    \/ ReportGender
    \/ ReportAge
    \/ ReportHospitals
    \/ ReportDoctors
    \/ ReportReadmitted
    \/ ReportTimeInHospital
    \/ ReportBilling
    \/ Write
    \/ Stop

Next == Prepare \/ Reporting

Spec == Init /\ [][Next]_vars

-----------------------------------------------------------------------------
(* The join on its own: the script up to final_df, over more ages, labels  *)
(* and partitionings.                                                      *)

JoinAges == {NULL, 20, 30, Int32Max}

JoinLabels == {L_20_30, L_21_31, L_invalid, L_maxint}

JoinPatientRows == {<<"Pat", a, "F", "D1", "H1", 100, "Emergency">> : a \in JoinAges}

JoinReadmissionRows == {<<l, 3, "yes">> : l \in JoinLabels}

InitJoin ==
    /\ \E rows \in BoundedSeq(JoinPatientRows, MaxPatients) :
         patients_csv = [cols |-> PatientHeader, rows |-> rows]
    /\ \E rows \in BoundedSeq(JoinReadmissionRows, MaxReadmissions) :
         readmissions_csv = [cols |-> ReadmissionHeader, rows |-> rows]
    /\ partitioning \in Partitionings(Len(patients_csv.rows))
    /\ output = OldOutput
    /\ InitRun

SpecJoin == InitJoin /\ [][Prepare]_vars

-----------------------------------------------------------------------------
(* The interval parser on its own: one readmission row with any label,     *)
(* joined with one patient of every age of ParseAges.                      *)

LabelChars == {"[", "-", ")", "2", "x"}

NotableLabels ==
    {L_20_30, L_0_10, L_invalid, L_90plus, L_maxint, L_overflow, L_leading_zero,
     L_embedded, NullString}

Labels == BoundedSeq(LabelChars, MaxLabelLen) \cup NotableLabels

ParseAges == <<NULL, 0, 7, 25, Int32Max>>

InitParse ==
    /\ patients_csv =
         [cols |-> PatientHeader,
          rows |-> [k \in 1..Len(ParseAges) |->
                      <<"Pat", ParseAges[k], "F", "D1", "H1", 100, "Emergency">>]]
    /\ \E l \in Labels :
         readmissions_csv = [cols |-> ReadmissionHeader, rows |-> << <<l, 3, "yes">> >>]
    /\ partitioning = [k \in 1..Len(ParseAges) |-> 0]
    /\ output = OldOutput
    /\ InitRun

SpecParse == InitParse /\ [][Prepare]_vars

-----------------------------------------------------------------------------
(* The normalizer on its own: any short list of short raw names.           *)

NameChars == {"A", " ", "\t"}

NotableHeaders == {PatientHeader, PatientHeaderTab, <<raw_Age, raw_age>>}

RawHeaders == BoundedSeq(BoundedSeq(NameChars, MaxNameLen), MaxColumns) \cup NotableHeaders

InitNormalize ==
    /\ \E h \in RawHeaders : patients_csv = [cols |-> h, rows |-> <<>>]
    /\ \E h \in {ReadmissionHeader, <<raw_age_group>>} :
         readmissions_csv = [cols |-> h, rows |-> <<>>]
    /\ partitioning = <<>>
    /\ output = OldOutput
    /\ InitRun

SpecNormalize == InitNormalize /\ [][Normalizing]_vars

-----------------------------------------------------------------------------
(* Two runs on the same files: six patients in six hospitals, matched by   *)
(* four overlapping buckets, so that hospitals tie on their row count.     *)

RerunAges == {20, 35}

RerunPatients(a4, a5, a6) ==
    << <<"P1", 23, "F", "D1", "H1", 100, "Emergency">>,
       <<"P2", 22, "M", "D1", "H2", 100, "Emergency">>,
       <<"P3", 21, "F", "D1", "H3", 100, "Emergency">>,
       <<"P4", a4, "M", "D1", "H4", 100, "Emergency">>,
       <<"P5", a5, "F", "D1", "H5", 100, "Emergency">>,
       <<"P6", a6, "M", "D1", "H6", 100, "Emergency">> >>

RerunReadmissions ==
    << <<L_20_30, 3, "yes">>, <<L_21_31, 3, "no">>, <<L_22_32, 3, "yes">>,
       <<L_23_33, 3, "no">> >>

InitRerun ==
    /\ \E a4, a5, a6 \in RerunAges :
         patients_csv = [cols |-> PatientHeader, rows |-> RerunPatients(a4, a5, a6)]
    /\ readmissions_csv = [cols |-> ReadmissionHeader, rows |-> RerunReadmissions]
    /\ partitioning = [k \in 1..Len(patients_csv.rows) |-> 0]
    /\ output = OldOutput
    /\ InitRun

NextRerun == Next \/ Rerun

SpecRerun == InitRerun /\ [][NextRerun]_vars

-----------------------------------------------------------------------------
(* Vocabulary of the properties, stated without the operators above *)

(* age lies in the interval [lower, lower + 9], over the integers. *)
InInterval(age, low) ==
    /\ age # NULL
    /\ low # NULL
    /\ low <= age
    /\ age - low <= 9

Joined == joined_df.cols # <<>>

PatientAgeOf(k) == patients_df.rows[k][CHOOSE i \in 1..Len(patients_df.cols) : patients_df.cols[i] = c_age]

PatientIdOf(k) == patients_df.rows[k][Len(patients_df.rows[k])]

AgeLowerOf(j) == readmissions_df.rows[j][Len(readmissions_df.rows[j])]

NumPatients == Len(patients_df.rows)

NumReadmissions == Len(readmissions_df.rows)

(* Number of readmission rows whose interval contains the age of patient k. *)
MatchCount(k) ==
    Cardinality({j \in 1..NumReadmissions : InInterval(PatientAgeOf(k), AgeLowerOf(j))})

RECURSIVE SumTo(_, _)
SumTo(f(_), n) == IF n = 0 THEN 0 ELSE f(n) + SumTo(f, n - 1)

RECURSIVE SumOfCounts(_)
SumOfCounts(f) ==
    IF DOMAIN f = {} THEN 0
    ELSE LET v == CHOOSE x \in DOMAIN f : TRUE IN
         f[v] + SumOfCounts([w \in DOMAIN f \ {v} |-> f[w]])

(* Number of rows of final_df whose column at position c holds v. *)
RowsWith(c, v) == Cardinality({i \in 1..Len(final_df.rows) : final_df.rows[i][c] = v})

ValuesAt(c) == {final_df.rows[i][c] : i \in 1..Len(final_df.rows)}

(* Positions of the columns of final_df, as the select statement lists them. *)
F_gender == 4
F_doctor == 5
F_hospital == 6
F_readmitted == 10

ReportTitles == <<T_gender, T_age, T_hospitals, T_doctors, T_readmitted, T_time, T_billing>>

IsReport(entry) == \E i \in 1..Len(ReportTitles) : ReportTitles[i] = entry[1]

ReportsOf(con) == SelectSeq(con, IsReport)

TitlesOf(con) == [i \in 1..Len(con) |-> con[i][1]]

IsPrefix(s, t) == Len(s) <= Len(t) /\ \A i \in 1..Len(s) : s[i] = t[i]

-----------------------------------------------------------------------------
(* C1 - Join soundness: every row of the joined frame is one patient row   *)
(* followed by one readmission row whose age_lower is not NULL and whose   *)
(* interval [age_lower, age_lower + 9] contains the patient's non-NULL age. *)
C1_JoinSoundness ==
    Joined =>
        \A i \in 1..Len(joined_df.rows) :
            \E k \in 1..NumPatients, j \in 1..NumReadmissions :
                /\ joined_df.rows[i] = patients_df.rows[k] \o readmissions_df.rows[j]
                /\ InInterval(PatientAgeOf(k), AgeLowerOf(j))

(* A join that kept a pair and dropped others, with a NULL on either side. *)
C1_Witness ==
    /\ Joined
    /\ Len(joined_df.rows) >= 1
    /\ \E k \in 1..NumPatients : PatientAgeOf(k) = NULL
    /\ \E j \in 1..NumReadmissions : AgeLowerOf(j) = NULL

(* C2 - Inner-join totality: the joined frame holds, for every patient,    *)
(* exactly as many rows with the patient's id as there are readmission     *)
(* rows whose interval contains the patient's age, and nothing else.       *)
C2_JoinTotality ==
    Joined =>
        /\ \A k \in 1..NumPatients :
               Cardinality({i \in 1..Len(joined_df.rows) :
                               joined_df.rows[i][Len(patients_df.cols)] = PatientIdOf(k)})
                   = MatchCount(k)
        /\ Len(joined_df.rows) = SumTo(MatchCount, NumPatients)

-----------------------------------------------------------------------------
(* The pattern [<digits>-<digits>) read off the label, position by position *)

DecimalDigits == {"0", "1", "2", "3", "4", "5", "6", "7", "8", "9"}

AllDigits(s, from, to) == \A m \in from..to : s[m] \in DecimalDigits

(* Positions <<i, j, k>> of "[", "-" and ")" of an occurrence of the pattern. *)
Occurrences(s) ==
    {t \in (1..Len(s)) \X (1..Len(s)) \X (1..Len(s)) :
        /\ t[1] + 1 < t[2]
        /\ t[2] + 1 < t[3]
        /\ s[t[1]] = "["
        /\ s[t[2]] = "-"
        /\ s[t[3]] = ")"
        /\ AllDigits(s, t[1] + 1, t[2] - 1)
        /\ AllDigits(s, t[2] + 1, t[3] - 1)}

(* The first digit group of the leftmost occurrence. *)
FirstGroup(s) ==
    LET t == CHOOSE t \in Occurrences(s) : \A u \in Occurrences(s) : t[1] <= u[1]
    IN SubSeq(s, t[1] + 1, t[2] - 1)

RECURSIVE StripZeros(_)
StripZeros(ds) == IF Len(ds) > 1 /\ Head(ds) = "0" THEN StripZeros(Tail(ds)) ELSE ds

RECURSIVE Decimal(_)
Decimal(n) ==
    LET last == <<"0", "1", "2", "3", "4", "5", "6", "7", "8", "9">>[(n % 10) + 1]
    IN IF n < 10 THEN <<last>> ELSE Append(Decimal(n \div 10), last)

Ord(ch) == CHOOSE d \in 0..9 : Decimal(d) = <<ch>>

(* The number written by ds is at most 2147483647. *)
FitsInteger(ds) ==
    LET t == StripZeros(ds)
        top == Decimal(Int32Max)
    IN \/ Len(t) < Len(top)
       \/ /\ Len(t) = Len(top)
          /\ \/ t = top
             \/ \E m \in 1..Len(t) :
                   /\ \A q \in 1..(m - 1) : t[q] = top[q]
                   /\ Ord(t[m]) < Ord(top[m])

ParsedLabel == readmissions_csv.rows[1][1]

Transformed == Len(readmissions_df.cols) = Len(readmissions_csv.cols) + 1

(* The transform statement did not raise, and a row whose age_lower is     *)
(* NULL is in no row of the joined frame.                                  *)
ParserTotalAndNullNeverJoins ==
    /\ failed_at # "transform_age"
    /\ (Joined /\ AgeLowerOf(1) = NULL) => joined_df.rows = <<>>

(* C3 as stated - the derived age_lower is the integer value of the first  *)
(* digit group whenever the label contains the pattern, and NULL (never 0) *)
(* when it does not; the parse never raises; a NULL age_lower joins with   *)
(* no patient.                                                             *)
C3_ParserAsStated ==
    (Len(readmissions_csv.rows) = 1 /\ Transformed) =>
        /\ IF Occurrences(ParsedLabel) = {}
           THEN AgeLowerOf(1) = NULL
           ELSE /\ AgeLowerOf(1) # NULL
                /\ Decimal(AgeLowerOf(1)) = StripZeros(FirstGroup(ParsedLabel))
        /\ ParserTotalAndNullNeverJoins

(* C3 amended - the derived age_lower is the integer value of the first    *)
(* digit group of the leftmost occurrence of the pattern when that value   *)
(* is at most 2147483647, and NULL (never 0) when the label contains no    *)
(* occurrence or the value is larger; the parse never raises; a NULL       *)
(* age_lower joins with no patient.                                        *)
C3_ParserTotality ==
    (Len(readmissions_csv.rows) = 1 /\ Transformed) =>
        /\ IF Occurrences(ParsedLabel) # {} /\ FitsInteger(FirstGroup(ParsedLabel))
           THEN /\ AgeLowerOf(1) # NULL
                /\ Decimal(AgeLowerOf(1)) = StripZeros(FirstGroup(ParsedLabel))
           ELSE AgeLowerOf(1) = NULL
        /\ ParserTotalAndNullNeverJoins

(* The open-ended bucket has been parsed to NULL and joined with nobody,   *)
(* although patients of age 0 to 9 were there to be matched.               *)
C3_Witness ==
    /\ ParsedLabel = L_90plus
    /\ Joined
    /\ AgeLowerOf(1) = NULL
    /\ joined_df.rows = <<>>
    /\ \E k \in 1..NumPatients : PatientAgeOf(k) = 0

-----------------------------------------------------------------------------
IdAssigned == Len(patients_df.cols) = Len(patients_csv.cols) + 1

(* C4 - Identifier assignment: the stage returns as many rows as it got,   *)
(* appends the patient_id column and leaves every other field as read;     *)
(* the ids are pairwise distinct across partitions and never decrease      *)
(* along the input order.                                                  *)
C4_IdentifierAssignment ==
    IdAssigned =>
        LET n == Len(patients_csv.rows)
            c == Len(patients_csv.cols)
        IN /\ NumPatients = n
           /\ patients_df.cols[c + 1] = c_patient_id
           /\ \A k \in 1..n :
                 /\ Len(patients_df.rows[k]) = c + 1
                 /\ SubSeq(patients_df.rows[k], 1, c) = patients_csv.rows[k]
           /\ \A k1, k2 \in 1..n :
                 k1 < k2 => /\ PatientIdOf(k1) # PatientIdOf(k2)
                            /\ IdLeq(PatientIdOf(k1), PatientIdOf(k2))

(* Two rows of two different partitions have received their ids. *)
C4_Witness ==
    /\ IdAssigned
    /\ NumPatients = 2
    /\ partitioning[1] # partitioning[2]
    /\ PatientIdOf(2).lo = 0

-----------------------------------------------------------------------------
(* C5 - Report ordering: the reports printed so far are the first reports  *)
(* of the fixed list, each once and in its order; a run that completes has *)
(* printed all seven; a report is printed only when the columns have been  *)
(* normalized, the ids assigned, age_lower derived, and the joined frame   *)
(* and its projection produced.                                            *)
C5_ReportOrder ==
    LET titles == TitlesOf(ReportsOf(console)) IN
    /\ IsPrefix(titles, ReportTitles)
    /\ pc = "done" => titles = ReportTitles
    /\ titles # <<>> =>
          /\ \A i \in 1..Len(patients_csv.cols) :
                \A m \in 1..Len(patients_df.cols[i]) :
                    patients_df.cols[i][m] \notin {" ", "N", "A", "G", "D", "H", "B", "T"}
          /\ IdAssigned
          /\ patients_df.cols[Len(patients_df.cols)] = c_patient_id
          /\ Transformed
          /\ readmissions_df.cols[Len(readmissions_df.cols)] = c_age_lower
          /\ Joined
          /\ final_df.cols # <<>>
          /\ Len(final_df.rows) = Len(joined_df.rows)

(* A run that printed all seven reports over a non-empty joined frame. *)
C5_Witness ==
    /\ pc = "done"
    /\ TitlesOf(ReportsOf(console)) = ReportTitles
    /\ Len(final_df.rows) >= 2

-----------------------------------------------------------------------------
(* C6 - Idempotence: a second run on the same files and partitioning ends  *)
(* with the same joined rows (as a multiset) and the same reports, the     *)
(* top-5 reports showing the same groups.                                  *)
SameRows(a, b) ==
    \A r \in Range(a) \cup Range(b) :
        Cardinality({i \in 1..Len(a) : a[i] = r}) = Cardinality({i \in 1..Len(b) : b[i] = r})

SameEntry(e, f) ==
    /\ e[1] = f[1]
    /\ IF e[1] \in {T_hospitals, T_doctors}
       THEN Range(e[2]) = Range(f[2])
       ELSE e[2] = f[2]

C6_Idempotence ==
    (run = 2 /\ pc = "done") =>
        /\ SameRows(final_df.rows, previous.rows)
        /\ Len(console) = Len(previous.console)
        /\ \A i \in 1..Len(console) : SameEntry(console[i], previous.console[i])

-----------------------------------------------------------------------------
(* The canonical form of one character of a raw column name. *)
CanonicalChar(ch) ==
    CASE ch = " " -> "_"
      [] ch = "A" -> "a"
      [] ch = "B" -> "b"
      [] ch = "D" -> "d"
      [] ch = "G" -> "g"
      [] ch = "H" -> "h"
      [] ch = "N" -> "n"
      [] ch = "T" -> "t"
      [] OTHER -> ch

(* The same, with every whitespace character turned into an underscore. *)
CanonicalCharAnyWhitespace(ch) == IF ch = "\t" THEN "_" ELSE CanonicalChar(ch)

IsCanonical(canon, raws, Canon(_)) ==
    /\ Len(canon) = Len(raws)
    /\ \A i \in 1..Len(raws) :
          /\ Len(canon[i]) = Len(raws[i])
          /\ \A m \in 1..Len(raws[i]) : canon[i][m] = Canon(raws[i][m])

NormalizedWith(Canon(_)) ==
    /\ failed_at \notin {"normalize_patients", "normalize_readmissions"}
    /\ pc \in {"normalize_readmissions", "assign_patient_id"} =>
          /\ IsCanonical(patients_df.cols, patients_csv.cols, Canon)
          /\ patients_df.rows = patients_csv.rows
    /\ pc = "assign_patient_id" =>
          /\ IsCanonical(readmissions_df.cols, readmissions_csv.cols, Canon)
          /\ readmissions_df.rows = readmissions_csv.rows

(* C7 as stated - the normalizer returns, in the same order and number,    *)
(* every raw name lowercased with every whitespace character (the tab      *)
(* included) replaced by an underscore; it never fails and keeps names     *)
(* that become equal.                                                      *)
C7_NormalizationAsStated == NormalizedWith(CanonicalCharAnyWhitespace)

(* C7 amended - the normalizer returns, in the same order and number,      *)
(* every raw name lowercased with every space character replaced by an     *)
(* underscore and every other character, a tab included, kept; it never    *)
(* fails and keeps names that become equal.                                *)
C7_Normalization == NormalizedWith(CanonicalChar)

(* A header with capitals, a space and a tab has been normalized: the      *)
(* space became an underscore, the tab is still there.                     *)
C7_Witness ==
    /\ pc = "assign_patient_id"
    /\ patients_csv.cols = PatientHeaderTab
    /\ patients_df.cols[7] = c_admission_type
    /\ patients_df.cols[6][8] = "\t"

-----------------------------------------------------------------------------
(* C8 - Grouped counts: a count report gives every value present in the    *)
(* joined rows its number of rows, the counts sum to the number of joined  *)
(* rows, and the distinct-patient count is the number of patients whose    *)
(* age lies in the interval of at least one readmission row.               *)
CountsCorrect(counts, c) ==
    /\ DOMAIN counts = ValuesAt(c)
    /\ \A v \in DOMAIN counts : counts[v] = RowsWith(c, v)
    /\ SumOfCounts(counts) = Len(final_df.rows)

ShownCountsCorrect(shown, c) ==
    /\ \A i \in 1..Len(shown) : shown[i][2] = RowsWith(c, shown[i][1])
    /\ Cardinality(ValuesAt(c)) <= TopN =>
          /\ {shown[i][1] : i \in 1..Len(shown)} = ValuesAt(c)
          /\ SumTo(LAMBDA i : shown[i][2], Len(shown)) = Len(final_df.rows)

C8_GroupedCounts ==
    \A e \in Range(console) :
        /\ e[1] = T_gender => CountsCorrect(e[2], F_gender)
        /\ e[1] = T_readmitted => CountsCorrect(e[2], F_readmitted)
        /\ e[1] = T_hospitals => ShownCountsCorrect(e[2], F_hospital)
        /\ e[1] = T_doctors => ShownCountsCorrect(e[2], F_doctor)
        /\ e[1] = T_rows => e[2] = Len(final_df.rows)
        /\ e[1] = T_patients =>
              e[2] = Cardinality({k \in 1..NumPatients : MatchCount(k) >= 1})

-----------------------------------------------------------------------------
(* C9 - Top-K selection: a top-5 report shows min(5, number of groups)     *)
(* groups in non-increasing order of count, no group left out has a larger *)
(* count than a group shown, and groups with equal counts keep their       *)
(* relative order from one run to the next.                                *)
TopKShape(shown, c) ==
    /\ Len(shown) = Min(5, Cardinality(ValuesAt(c)))
    /\ \A i \in 1..Len(shown) : shown[i][2] = RowsWith(c, shown[i][1])
    /\ \A i, j \in 1..Len(shown) : i < j => shown[i][2] >= shown[j][2] /\ shown[i][1] # shown[j][1]
    /\ \A v \in ValuesAt(c) :
          (\A i \in 1..Len(shown) : shown[i][1] # v) =>
              \A i \in 1..Len(shown) : shown[i][2] >= RowsWith(c, v)

TiesKeepOrder(shown, before) ==
    \A i, j \in 1..Len(shown) :
        (i < j /\ shown[i][2] = shown[j][2]) =>
            ~ \E a, b \in 1..Len(before) :
                  a < b /\ before[a] = shown[j] /\ before[b] = shown[i]

C9_TopK ==
    \A n \in 1..Len(console) :
        LET e == console[n] IN
        /\ e[1] = T_hospitals => TopKShape(e[2], F_hospital)
        /\ e[1] = T_doctors => TopKShape(e[2], F_doctor)
        /\ (run = 2 /\ e[1] \in {T_hospitals, T_doctors}) =>
              TiesKeepOrder(e[2], previous.console[n][2])

-----------------------------------------------------------------------------
(* C10 - Failure propagation and sink: the write is started at most once,  *)
(* only after the seven reports; a write that returns has replaced what    *)
(* was stored by exactly the joined rows; a statement that raises ends the *)
(* run there: nothing after it is executed, nothing is retried, and unless *)
(* the write itself failed the stored output is untouched.                 *)
Printing ==
    {"show_sample", "count_rows", "count_patients", "report_gender", "report_age",
     "report_hospitals", "report_doctors", "report_readmitted",
     "report_time_in_hospital", "report_billing"}

PositionOf(stage) == CHOOSE i \in 1..Len(Program) : Program[i] = stage

PrintedBefore(stage) ==
    Cardinality({i \in 1..(PositionOf(stage) - 1) : Program[i] \in Printing})

C10_FailurePropagationAndSink ==
    /\ writes <= 1
    /\ writes = 1 =>
          /\ TitlesOf(ReportsOf(console)) = ReportTitles
          /\ final_df.cols # <<>>
    /\ pc \in {"stop", "done"} => (writes = 1 /\ output = final_df.rows)
    /\ (pc = "failed") <=> (failed_at # "none")
    /\ pc = "failed" =>
          /\ ~ ENABLED Next
          /\ Len(console) = PrintedBefore(failed_at)
          /\ writes = (IF failed_at = "write" THEN 1 ELSE 0)
          /\ failed_at # "write" => output = OldOutput
          /\ failed_at = "write" => output \in {OldOutput, <<>>}
          /\ PositionOf(failed_at) <= PositionOf("join") => ~ Joined
          /\ PositionOf(failed_at) <= PositionOf("select") => final_df = EmptyDF

(* A report failed after earlier reports were printed: the run ended and   *)
(* the stored output is still the old one.                                 *)
C10_Witness ==
    /\ pc = "failed"
    /\ failed_at = "report_hospitals"
    /\ Len(final_df.rows) >= 1
    /\ writes = 0
    /\ output = OldOutput

====
